---- MODULE Spec2Model ----
(***************************************************************************)
(* Model of record_linkage.py: the Fellegi-Sunter linkage of the Zagat and *)
(* Fodor's restaurant records.                                             *)
(*                                                                         *)
(* Two specifications are given.                                           *)
(*   Spec       the training half of find_matches: tuple_probs on the      *)
(*              matches sample, tuple_probs on the unmatches sample, then  *)
(*              create_sets, one step per statement group of create_sets.  *)
(*   SpecMatch  the classification half of find_matches: the partition is  *)
(*              one that create_sets returns, the nested loop over the     *)
(*              zagat and fodors rows runs pair by pair, and find_matches  *)
(*              is called once without and once with block_on_city on the  *)
(*              same data.                                                 *)
(*                                                                         *)
(* Relative frequencies are Python floats in the source.  They are kept    *)
(* here as exact fractions <<numerator, denominator>> with a positive      *)
(* denominator, compared by cross-multiplication; rounding of the floating *)
(* point sums is not modelled.                                             *)
(***************************************************************************)
EXTENDS Integers, Sequences, FiniteSets, TLC

\* ------------------------------------------------------------------ bounds

\* Largest number of rows of a training sample (matches or unmatches).
MaxSample == 2

\* mu and lambda range over k / LevelDen for k in -1 .. LevelDen + 1, so that
\* both in-range and out-of-range levels are drawn.
LevelDen == 2

\* A variable the specification at hand does not use.
Unused == "unused"

\* Rows of fodors.csv.
NumFodors == 2

\* ------------------------------------------------------------ fractions

Frac(n, d) == <<n, d>>

Zero == Frac(0, 1)

IsZero(a) == a[1] = 0

Leq(a, b) == a[1] * b[2] <= b[1] * a[2]

Eq(a, b) == a[1] * b[2] = b[1] * a[2]

Add(a, b) == Frac(a[1] * b[2] + b[1] * a[2], a[2] * b[2])

\* m / u for u > 0.
Div(m, u) == Frac(m[1] * u[2], m[2] * u[1])

Levels == { Frac(k, LevelDen) : k \in -1 .. (LevelDen + 1) }

InUnit(a) == Leq(Zero, a) /\ Leq(a, Frac(1, 1))

Reverse(s) == [i \in 1 .. Len(s) |-> s[Len(s) + 1 - i]]

Range(s) == { s[i] : i \in 1 .. Len(s) }

\* ------------------------------------------------------- pattern domain

\* tuple_probs, line 73.
categories == <<"low", "medium", "high">>

\* The keys of counts in insertion order (the three nested loops of
\* tuple_probs): a Python dict iterates in insertion order, and freqs is a copy
\* of counts, so this is also the order of freqs_u.items() in create_sets.
AllTuples ==
  [i \in 1 .. 27 |->
     << categories[((i - 1) \div 9) + 1],
        categories[(((i - 1) \div 3) % 3) + 1],
        categories[((i - 1) % 3) + 1] >>]

Domain == Range(AllTuples)

\* The comparison patterns the rows of the data produce.  jellyfish.jaro_winkler
\* and util.get_jw_category are not part of the source file; the tuple they
\* yield for a row is an input, drawn from these patterns.
RowPatterns ==
  { <<"high", "high", "high">>,
    <<"medium", "high", "low">>,
    <<"low", "low", "low">> }

\* The values of the city column.
Cities == {"chicago", "evanston"}

\* The rows of zagat.csv: two.
ZagatRows == {1, 2}

\* ------------------------------------------------------------------ state

VARIABLES
  pc,                  \* position in find_matches
  mu, lmbda,           \* the parameters mu and lambda_ of find_matches
  error,               \* the exception that ended the run, or "none"
  df,                  \* rows of the sample the running tuple_probs has read
  counts,              \* tuple_probs: counts
  freqs_m, freqs_u,    \* find_matches, line 242
  possible_tuples,     \* create_sets: possible_tuples
  front,               \* create_sets: front
  tuples_to_rank,      \* create_sets: tuples_to_rank
  ratios,              \* create_sets: ratios
  ranked,              \* create_sets: ranked (one list object, reversed in place)
  match_tuples,        \* create_sets: match_tuples
  unmatch_tuples_full, \* create_sets: unmatch_tuples_full
  unmatch_tuples,      \* create_sets: unmatch_tuples
  zagat, fodors,       \* find_matches: the city column of the two dataframes
  pat,                 \* the tuple t of lines 268-275, for the pairs compared so far
  block_on_city,       \* the parameter block_on_city of find_matches
  i_z,                 \* position of row_z in zagat (0 before the loop)
  fodors_to_iterate,   \* find_matches: fodors_to_iterate, as fodors positions
  k_f,                 \* position of row_f in fodors_to_iterate
  match_z, match_f,    \* find_matches, lines 249-254
  unmatch_z, unmatch_f,
  poss_z, poss_f,
  results              \* what the finished calls returned, by block_on_city

train_vars ==
  << pc, mu, lmbda, error, df, counts, freqs_m, freqs_u, possible_tuples, front,
     tuples_to_rank, ratios, ranked, match_tuples, unmatch_tuples_full,
     unmatch_tuples >>

\* ------------------------------------------------------------ tuple_probs

\* Lines 73-78: every pattern of the domain starts at count 0.
zero_counts == [t \in Domain |-> 0]

\* Line 88: counts[tup] += 1.
count_row(c, tup) == [c EXCEPT ![tup] = @ + 1]

\* Lines 80-88 over a whole sample.
RECURSIVE count_rows(_, _, _)
count_rows(rows, i, c) ==
  IF i > Len(rows) THEN c ELSE count_rows(rows, i + 1, count_row(c, rows[i]))

\* sum(counts.values()), line 92.
RECURSIVE sum_values(_, _)
sum_values(c, i) ==
  IF i > Len(AllTuples) THEN 0 ELSE c[AllTuples[i]] + sum_values(c, i + 1)

\* normalise with the division by the number of keys, len(counts), in place
\* of sum(counts.values()).
normalise_by_keys(c) == [t \in Domain |-> Frac(c[t], Cardinality(DOMAIN c))]

\* Lines 90-92, when the division is defined.
normalise(c) == [t \in Domain |-> Frac(c[t], sum_values(c, 1))]

\* division_fails when an empty sample is let through as an all-zero table.
division_guarded(c) == FALSE

\* Line 92 divides by sum(counts.values()): Python raises ZeroDivisionError
\* when it is 0, and nothing in tuple_probs or find_matches catches it.
division_fails(c) == sum_values(c, 1) = 0

\* ------------------------------------------------------------ create_sets

\* Lines 167-176, from the i-th key of freqs_u on.
RECURSIVE triage(_, _, _, _)
triage(fm, fu, i, acc) ==
  IF i > Len(AllTuples) THEN acc
  ELSE
    LET t == AllTuples[i]
        u == fu[t]
        m == fm[t]
    IN  IF IsZero(u)
        THEN IF IsZero(m)
             THEN triage(fm, fu, i + 1,
                         [acc EXCEPT !.possible = @ \cup {t}])
             ELSE triage(fm, fu, i + 1,
                         [acc EXCEPT !.front = Append(@, t)])
        ELSE triage(fm, fu, i + 1,
                    [acc EXCEPT !.ratios = Append(@, Div(m, u)),
                                !.tuples_to_rank = Append(@, t)])

\* Lines 162-165.
triage_start ==
  [possible |-> {}, ratios |-> <<>>, tuples_to_rank |-> <<>>, front |-> <<>>]

Perms(n) ==
  { f \in [1 .. n -> 1 .. n] : \A i, j \in 1 .. n : i # j => f[i] # f[j] }

\* np.argsort(ratios), line 110: indices that sort ratios ascending.  The
\* default kind is quicksort, which is not stable: among equal ratios the
\* order of the indices is whatever the numpy build produces, so every
\* ascending order is an outcome.
argsort(r) ==
  { o \in Perms(Len(r)) :
      \A i \in 1 .. (Len(r) - 1) : Leq(r[o[i]], r[o[i + 1]]) }

\* rank_tuples without line 111, order.reverse().
rank_tuples_ascending(fr, to_rank, r) ==
  { fr \o [i \in 1 .. Len(to_rank) |-> to_rank[order[i]]] :
      order \in argsort(r) }

\* Lines 110-116.
rank_tuples(fr, to_rank, r) ==
  { fr \o [i \in 1 .. Len(to_rank) |-> to_rank[Reverse(order)[i]]] :
      order \in argsort(r) }

\* cum_walk with the comparison of line 140 strict.
RECURSIVE cum_walk_strict(_, _, _, _, _, _)
cum_walk_strict(level, rk, freqs, i, cum, tuples_set) ==
  IF i > Len(rk) THEN tuples_set
  ELSE
    LET cumulative_p == Add(cum, freqs[rk[i]])
    IN  IF ~Leq(level, cumulative_p)
        THEN cum_walk_strict(level, rk, freqs, i + 1, cumulative_p,
                             tuples_set \cup {rk[i]})
        ELSE tuples_set

\* Lines 137-143 over the list rk, from position i with running sum cum.
RECURSIVE cum_walk(_, _, _, _, _, _)
cum_walk(level, rk, freqs, i, cum, tuples_set) ==
  IF i > Len(rk) THEN tuples_set
  ELSE
    LET cumulative_p == Add(cum, freqs[rk[i]])
    IN  IF Leq(cumulative_p, level)
        THEN cum_walk(level, rk, freqs, i + 1, cumulative_p,
                      tuples_set \cup {rk[i]})
        ELSE tuples_set

\* Lines 134-145: the set sort_by_cum_pr returns.  With left_tail false it
\* also reverses the caller's list in place (line 136); the action that calls
\* it applies that effect to ranked.
sort_by_cum_pr(level, rk, freqs, left_tail) ==
  cum_walk(level, IF left_tail THEN rk ELSE Reverse(rk), freqs, 1, Zero, {})

\* subtract_match without the difference of line 182.
subtract_nothing(full, match) == full

\* Line 182.
subtract_match(full, match) == full \ match

\* Lines 184-186.
assemble_possible(possible, rk, match, unmatch) ==
  possible \cup (Range(rk) \ (match \cup unmatch))

\* Lines 148-188 as a whole: the triples create_sets can return.
create_sets(fm, fu, m_level, l_level) ==
  LET tr == triage(fm, fu, 1, triage_start)
  IN  { LET match == sort_by_cum_pr(m_level, rk, fu, TRUE)
            full == sort_by_cum_pr(l_level, rk, fm, FALSE)
            unmatch == subtract_match(full, match)
        IN  [possible |-> assemble_possible(tr.possible, rk, match, unmatch),
             match |-> match,
             unmatch |-> unmatch] :
        rk \in rank_tuples(tr.front, tr.tuples_to_rank, tr.ratios) }

\* --------------------------------------------- Spec: the training half

Init ==
  /\ pc = "probs_m"
  /\ mu \in Levels
  /\ lmbda \in Levels
  /\ error = "none"
  /\ df = <<>>
  /\ counts = <<>>
  /\ freqs_m = <<>>
  /\ freqs_u = <<>>
  /\ possible_tuples = {}
  /\ front = <<>>
  /\ tuples_to_rank = <<>>
  /\ ratios = <<>>
  /\ ranked = <<>>
  /\ match_tuples = {}
  /\ unmatch_tuples_full = {}
  /\ unmatch_tuples = {}
  /\ zagat = Unused
  /\ fodors = Unused
  /\ pat = Unused
  /\ block_on_city = Unused
  /\ i_z = Unused
  /\ fodors_to_iterate = Unused
  /\ k_f = Unused
  /\ match_z = Unused
  /\ match_f = Unused
  /\ unmatch_z = Unused
  /\ unmatch_f = Unused
  /\ poss_z = Unused
  /\ poss_f = Unused
  /\ results = Unused

match_vars ==
  << zagat, fodors, pat, block_on_city, i_z, fodors_to_iterate, k_f, match_z,
     match_f, unmatch_z, unmatch_f, poss_z, poss_f, results >>

sets_vars ==
  << possible_tuples, front, tuples_to_rank, ratios, ranked, match_tuples,
     unmatch_tuples_full, unmatch_tuples, match_vars >>

\* tuple_probs is entered (line 242, first for matches, then for unmatches):
\* lines 73-78.
TupleProbsBegin ==
  /\ pc \in {"probs_m", "probs_u"}
  /\ counts' = zero_counts
  /\ df' = <<>>
  /\ pc' = IF pc = "probs_m" THEN "rows_m" ELSE "rows_u"
  /\ UNCHANGED << mu, lmbda, error, freqs_m, freqs_u, sets_vars >>

\* One iteration of the loop of lines 80-88 on the next row of the sample.
TupleProbsRow ==
  /\ pc \in {"rows_m", "rows_u"}
  /\ Len(df) < MaxSample
  /\ \E tup \in RowPatterns :
       /\ counts' = count_row(counts, tup)
       /\ df' = Append(df, tup)
  /\ UNCHANGED << pc, mu, lmbda, error, freqs_m, freqs_u, sets_vars >>

\* The sample is exhausted: lines 90-94.
TupleProbsEnd ==
  /\ pc \in {"rows_m", "rows_u"}
  /\ IF division_fails(counts)
     THEN /\ error' = "ZeroDivisionError"
          /\ pc' = "failed"
          /\ UNCHANGED << freqs_m, freqs_u >>
     ELSE /\ error' = error
          /\ IF pc = "rows_m"
             THEN /\ freqs_m' = normalise(counts)
                  /\ freqs_u' = freqs_u
                  /\ pc' = "probs_u"
             ELSE /\ freqs_u' = normalise(counts)
                  /\ freqs_m' = freqs_m
                  /\ pc' = "create_sets"
  /\ UNCHANGED << mu, lmbda, df, counts, sets_vars >>

\* create_sets, lines 162-176.
Triage ==
  /\ pc = "create_sets"
  /\ LET tr == triage(freqs_m, freqs_u, 1, triage_start)
     IN  /\ possible_tuples' = tr.possible
         /\ front' = tr.front
         /\ tuples_to_rank' = tr.tuples_to_rank
         /\ ratios' = tr.ratios
  /\ pc' = "rank"
  /\ UNCHANGED << mu, lmbda, error, df, counts, freqs_m, freqs_u, ranked,
                  match_tuples, unmatch_tuples_full, unmatch_tuples, match_vars >>

\* create_sets, line 178.
Rank ==
  /\ pc = "rank"
  /\ ranked' \in rank_tuples(front, tuples_to_rank, ratios)
  /\ pc' = "cut_top"
  /\ UNCHANGED << mu, lmbda, error, df, counts, freqs_m, freqs_u,
                  possible_tuples, front, tuples_to_rank, ratios, match_tuples,
                  unmatch_tuples_full, unmatch_tuples, match_vars >>

\* create_sets, line 179.
CutTop ==
  /\ pc = "cut_top"
  /\ match_tuples' = sort_by_cum_pr(mu, ranked, freqs_u, TRUE)
  /\ pc' = "cut_bottom"
  /\ UNCHANGED << mu, lmbda, error, df, counts, freqs_m, freqs_u,
                  possible_tuples, front, tuples_to_rank, ratios, ranked,
                  unmatch_tuples_full, unmatch_tuples, match_vars >>

\* create_sets, lines 180-181; line 136 reverses ranked itself.
CutBottom ==
  /\ pc = "cut_bottom"
  /\ unmatch_tuples_full' = sort_by_cum_pr(lmbda, ranked, freqs_m, FALSE)
  /\ ranked' = Reverse(ranked)
  /\ pc' = "assemble"
  /\ UNCHANGED << mu, lmbda, error, df, counts, freqs_m, freqs_u,
                  possible_tuples, front, tuples_to_rank, ratios, match_tuples,
                  unmatch_tuples, match_vars >>

\* create_sets, lines 182-188.
Assemble ==
  /\ pc = "assemble"
  /\ unmatch_tuples' = subtract_match(unmatch_tuples_full, match_tuples)
  /\ possible_tuples' =
       assemble_possible(possible_tuples, ranked, match_tuples, unmatch_tuples')
  /\ pc' = "done"
  /\ UNCHANGED << mu, lmbda, error, df, counts, freqs_m, freqs_u, front,
                  tuples_to_rank, ratios, ranked, match_tuples,
                  unmatch_tuples_full, match_vars >>

Next ==
  \/ TupleProbsBegin
  \/ TupleProbsRow
  \/ TupleProbsEnd
  \/ Triage
  \/ Rank
  \/ CutTop
  \/ CutBottom
  \/ Assemble

vars == << train_vars, match_vars >>

Spec == Init /\ [][Next]_vars


\* ----------------------------------------------------- claims under Spec

\* The sum of the numerators of f over the set S.
RECURSIVE SumNum(_, _)
SumNum(S, f) ==
  IF S = {} THEN 0
  ELSE LET t == CHOOSE x \in S : TRUE IN f[t][1] + SumNum(S \ {t}, f)

\* The denominator the entries of a frequency table share.
TableDen(f) == f[CHOOSE t \in DOMAIN f : TRUE][2]

\* The relative frequency of the patterns of S, as one fraction.
Mass(S, f) == Frac(SumNum(S, f), TableDen(f))

Occurrences(t, rows) == Cardinality({ i \in 1 .. Len(rows) : rows[i] = t })

Prefix(rk, k) == { rk[i] : i \in 1 .. k }

\* create_sets has returned.
Returned == pc = "done"

\* tuple_probs has just ended on the sample df.
Ended == pc \in {"probs_u", "create_sets", "failed"}

\* The table the call that just ended returned.
Table == IF pc = "probs_u" THEN freqs_m ELSE freqs_u

OutOfRange == ~InUnit(mu) \/ ~InUnit(lmbda)

\* C1: the three sets create_sets returns are pairwise disjoint and their
\* union is the full pattern domain: every key of freqs_u is in exactly one.
C1_Partition ==
  Returned =>
    /\ match_tuples \cap unmatch_tuples = {}
    /\ match_tuples \cap possible_tuples = {}
    /\ unmatch_tuples \cap possible_tuples = {}
    /\ match_tuples \cup unmatch_tuples \cup possible_tuples = DOMAIN freqs_u
    /\ DOMAIN freqs_u = Domain
    /\ Cardinality(Domain) = 27

\* The two cutoffs overlapped, and all three sets are inhabited.
C1_Witness ==
  /\ Returned
  /\ unmatch_tuples_full \cap match_tuples # {}
  /\ match_tuples # {}
  /\ unmatch_tuples # {}
  /\ possible_tuples # {}

\* k is where the walk of lines 137-143 stops on rk: the first k patterns keep
\* the running sum within the level, and the next one, if any, exceeds it.
StopsAt(rk, f, level, k) ==
  /\ \A j \in 0 .. k : Leq(Mass(Prefix(rk, j), f), level)
  /\ k < Len(rk) => ~Leq(Mass(Prefix(rk, k + 1), f), level)

\* C2: for mu and lambda in [0,1], the u-frequency of match is at most mu and
\* the m-frequency of unmatch is at most lambda, already for the set of the
\* bottom-up cutoff before match is subtracted; each cutoff takes exactly the
\* patterns up to the first one that would push the running sum over the
\* bound, a pattern that brings the sum exactly to the bound included.
C2_ErrorBounds ==
  (pc \in {"assemble", "done"} /\ InUnit(mu) /\ InUnit(lmbda)) =>
    /\ Leq(Mass(match_tuples, freqs_u), mu)
    /\ Leq(Mass(unmatch_tuples_full, freqs_m), lmbda)
    /\ Returned => Leq(Mass(unmatch_tuples, freqs_m), lmbda)
    /\ \E k \in 0 .. Len(ranked) :
         /\ match_tuples = Prefix(Reverse(ranked), k)
         /\ StopsAt(Reverse(ranked), freqs_u, mu, k)
    /\ \E k \in 0 .. Len(ranked) :
         /\ unmatch_tuples_full = Prefix(ranked, k)
         /\ StopsAt(ranked, freqs_m, lmbda, k)

\* The top-down walk reached mu exactly with its last pattern and left the
\* next one out; the bottom-up walk stopped short as well.
C2_Witness ==
  /\ Returned
  /\ InUnit(mu) /\ InUnit(lmbda)
  /\ match_tuples # {}
  /\ Eq(Mass(match_tuples, freqs_u), mu)
  /\ ~IsZero(mu)
  /\ Range(ranked) \ match_tuples # {}
  /\ unmatch_tuples_full # {}
  /\ Range(ranked) \ unmatch_tuples_full # {}

\* C5: create_sets called with mu or lambda outside [0,1] fails with a
\* ConfigurationError and returns no partition.
C5_RejectsOutOfRange ==
  (OutOfRange /\ pc \in {"rank", "cut_top", "cut_bottom", "assemble", "done"}) =>
    /\ ~Returned
    /\ error = "ConfigurationError"

\* C7, as claimed: tuple_probs on an empty sample fails with a
\* ConfigurationError and returns no table.
C7_EmptyConfigurationError ==
  (Ended /\ df = <<>>) =>
    /\ pc = "failed"
    /\ error = "ConfigurationError"
    /\ freqs_u = <<>>

\* C7, amended: tuple_probs on an empty sample fails with the
\* ZeroDivisionError of line 92, which nothing catches; it returns no table and
\* find_matches goes no further.
C7_EmptyZeroDivision ==
  (Ended /\ df = <<>>) =>
    /\ pc = "failed"
    /\ error = "ZeroDivisionError"
    /\ freqs_u = <<>>

\* The unmatches sample was empty after the matches sample was not.
C7_Witness ==
  /\ pc = "failed"
  /\ df = <<>>
  /\ freqs_m # <<>>

\* C8: on a non-empty sample tuple_probs returns a table with an entry for
\* each of the 27 patterns, each entry the pattern's count over the sample
\* size (zero when never observed), the counts summing to the sample size.
C8_Frequencies ==
  (Ended /\ df # <<>>) =>
    /\ pc # "failed"
    /\ DOMAIN Table = Domain
    /\ Cardinality(DOMAIN Table) = 27
    /\ \A t \in Domain : Table[t] = Frac(Occurrences(t, df), Len(df))
    /\ SumNum(Domain, Table) = Len(df)
    /\ Eq(Mass(Domain, Table), Frac(1, 1))

\* A sample with a repeated pattern.
C8_Witness ==
  /\ Ended
  /\ \E t \in Domain : Occurrences(t, df) >= 2
  /\ pc = "create_sets"

IsFront(t) == IsZero(freqs_u[t]) /\ ~IsZero(freqs_m[t])

IsRanked(t) == ~IsZero(freqs_u[t])

NoEvidence(t) == IsZero(freqs_u[t]) /\ IsZero(freqs_m[t])

\* m(t)/u(t) for a pattern with u(t) > 0.
Ratio(t) == Div(freqs_m[t], freqs_u[t])

\* The list rank_tuples returned is still in ranked (CutBottom reverses it).
RankedFresh == pc \in {"cut_top", "cut_bottom"}

Position(rk, t) == CHOOSE i \in 1 .. Len(rk) : rk[i] = t

\* C9: in the list rank_tuples returns to create_sets every front pattern
\* (u = 0, m > 0) comes before every pattern with u > 0, patterns with u > 0
\* are in non-increasing order of m/u, and patterns with u = 0 and m = 0 are
\* not in the list and end up in possible.
C9_RankedOrder ==
  /\ RankedFresh =>
       /\ Range(ranked) = { t \in Domain : ~NoEvidence(t) }
       /\ Len(ranked) = Cardinality(Range(ranked))
       /\ \A i, j \in 1 .. Len(ranked) :
            i < j =>
              /\ IsFront(ranked[j]) => IsFront(ranked[i])
              /\ (IsRanked(ranked[i]) /\ IsRanked(ranked[j])) =>
                   Leq(Ratio(ranked[j]), Ratio(ranked[i]))
  /\ Returned => { t \in Domain : NoEvidence(t) } \subseteq possible_tuples

\* A front pattern followed by two patterns of different finite ratio.
C9_Witness ==
  /\ pc = "cut_top"
  /\ Len(ranked) = 3
  /\ IsFront(ranked[1])
  /\ IsRanked(ranked[2]) /\ IsRanked(ranked[3])
  /\ ~Leq(Ratio(ranked[2]), Ratio(ranked[3]))

\* C10: two patterns of tuples_to_rank with equal likelihood ratio appear in
\* the ranked list in their order in tuples_to_rank.
C10_StableTies ==
  RankedFresh =>
    \A i, j \in 1 .. Len(tuples_to_rank) :
      (i < j /\ Eq(ratios[i], ratios[j])) =>
        Position(ranked, tuples_to_rank[i]) < Position(ranked, tuples_to_rank[j])


\* --------------------------------- SpecMatch: the classification half

\* The samples tuple_probs can be given without failing, and the tables it
\* returns for them.
Samples == UNION { [1 .. n -> RowPatterns] : n \in 1 .. MaxSample }

Tables == { normalise(count_rows(rows, 1, zero_counts)) : rows \in Samples }

\* Lines 242-247: the (possible, match, unmatch) triples find_matches can get
\* from create_sets.
TrainedSets ==
  UNION { create_sets(fm, fu, m_level, l_level) :
            fm \in Tables, fu \in Tables, m_level \in Levels, l_level \in Levels }

\* Line 255.
all_fodors(fod) == [j \in 1 .. Len(fod) |-> j]

\* city_filter that keeps every row.
city_filter_none(fod, city) == all_fodors(fod)

\* Lines 260-262: the rows of fodors whose city equals the city of row_z, in
\* the order of fodors.
city_filter(fod, city) == SelectSeq(all_fodors(fod), LAMBDA j : fod[j] = city)

\* label_of with the unmatch branch appending to the possible lists.
label_of_merged(t, match, unmatch, possible) ==
  IF t \in match THEN "match"
  ELSE IF t \in unmatch THEN "possible"
  ELSE IF t \in possible THEN "possible"
  ELSE "none"

\* Lines 278-289: the list the pair is appended to; with t in none of the
\* three sets no branch is taken and nothing is appended.
label_of(t, match, unmatch, possible) ==
  IF t \in match THEN "match"
  ELSE IF t \in unmatch THEN "unmatch"
  ELSE IF t \in possible THEN "possible"
  ELSE "none"

\* The two files hold any cities.  find_matches is first called as line 300
\* calls it, with block_on_city True.  No pair of rows has been compared yet.
InitMatch ==
  /\ pc = "train"
  /\ error = "none"
  /\ zagat \in [ZagatRows -> Cities]
  /\ fodors \in [1 .. NumFodors -> Cities]
  /\ pat = <<>>
  /\ block_on_city = TRUE
  /\ results = <<>>
  /\ possible_tuples = {}
  /\ match_tuples = {}
  /\ unmatch_tuples = {}
  /\ i_z = 0
  /\ k_f = 0
  /\ fodors_to_iterate = <<>>
  /\ match_z = <<>>
  /\ match_f = <<>>
  /\ unmatch_z = <<>>
  /\ unmatch_f = <<>>
  /\ poss_z = <<>>
  /\ poss_f = <<>>
  /\ mu = Unused
  /\ lmbda = Unused
  /\ df = Unused
  /\ counts = Unused
  /\ freqs_m = Unused
  /\ freqs_u = Unused
  /\ front = Unused
  /\ tuples_to_rank = Unused
  /\ ratios = Unused
  /\ ranked = Unused
  /\ unmatch_tuples_full = Unused

unused_in_match ==
  << mu, lmbda, df, counts, freqs_m, freqs_u, front, tuples_to_rank, ratios,
     ranked, unmatch_tuples_full >>

data_vars == << zagat, fodors >>

list_vars == << match_z, match_f, unmatch_z, unmatch_f, poss_z, poss_f >>

\* Lines 249-255.
loop_start ==
  /\ match_z' = <<>>
  /\ match_f' = <<>>
  /\ unmatch_z' = <<>>
  /\ unmatch_f' = <<>>
  /\ poss_z' = <<>>
  /\ poss_f' = <<>>
  /\ fodors_to_iterate' = all_fodors(fodors)
  /\ i_z' = 0
  /\ k_f' = 0

\* Lines 238-255 of the first call: the training samples are read, create_sets
\* returns its three sets, and the output lists are set up.
Train ==
  /\ pc = "train"
  /\ \E s \in TrainedSets :
       /\ possible_tuples' = s.possible
       /\ match_tuples' = s.match
       /\ unmatch_tuples' = s.unmatch
  /\ loop_start
  /\ pc' = "outer"
  /\ UNCHANGED << error, data_vars, pat, block_on_city, results, unused_in_match >>

\* Lines 238-242 when known_links.csv has no rows: tuple_probs(matches) raises.
TrainFails ==
  /\ pc = "train"
  /\ error' = "ZeroDivisionError"
  /\ pc' = "failed"
  /\ UNCHANGED << data_vars, pat, block_on_city, results, possible_tuples,
                  match_tuples, unmatch_tuples, i_z, k_f, fodors_to_iterate,
                  list_vars, unused_in_match >>

\* Lines 257-263: the next row of zagat; with block_on_city the rows of fodors
\* are filtered by its city.
ZagatRow ==
  /\ pc = "outer"
  /\ i_z < Cardinality(ZagatRows)
  /\ i_z' = i_z + 1
  /\ fodors_to_iterate' =
       IF block_on_city THEN city_filter(fodors, zagat[i_z']) ELSE fodors_to_iterate
  /\ k_f' = 0
  /\ pc' = IF Len(fodors_to_iterate') = 0 THEN "outer" ELSE "inner"
  /\ UNCHANGED << error, data_vars, pat, block_on_city, results, possible_tuples,
                  match_tuples, unmatch_tuples, list_vars, unused_in_match >>

\* Lines 268-275: the tuple of the pair p.  jaro_winkler and get_jw_category
\* are functions of the two rows: a pair compared before gives the tuple it
\* gave then, and a pair compared for the first time gives any row pattern.
compared(p, t) ==
  IF p \in DOMAIN pat THEN t = pat[p] ELSE t \in RowPatterns

\* Lines 265-289: the next row of fodors_to_iterate.
ClassifyPair ==
  /\ pc = "inner"
  /\ k_f < Len(fodors_to_iterate)
  /\ k_f' = k_f + 1
  /\ \E t \in RowPatterns :
       LET i_f == fodors_to_iterate[k_f']
           label == label_of(t, match_tuples, unmatch_tuples, possible_tuples)
       IN  /\ compared(<<i_z, i_f>>, t)
           /\ pat' = (<<i_z, i_f>> :> t) @@ pat
           /\ match_z' = IF label = "match" THEN Append(match_z, i_z) ELSE match_z
           /\ match_f' = IF label = "match" THEN Append(match_f, i_f) ELSE match_f
           /\ unmatch_z' =
                IF label = "unmatch" THEN Append(unmatch_z, i_z) ELSE unmatch_z
           /\ unmatch_f' =
                IF label = "unmatch" THEN Append(unmatch_f, i_f) ELSE unmatch_f
           /\ poss_z' =
                IF label = "possible" THEN Append(poss_z, i_z) ELSE poss_z
           /\ poss_f' =
                IF label = "possible" THEN Append(poss_f, i_f) ELSE poss_f
  /\ pc' = IF k_f' = Len(fodors_to_iterate) THEN "outer" ELSE "inner"
  /\ UNCHANGED << error, data_vars, block_on_city, results, possible_tuples,
                  match_tuples, unmatch_tuples, i_z, fodors_to_iterate,
                  unused_in_match >>

lists ==
  [match_z |-> match_z, match_f |-> match_f, unmatch_z |-> unmatch_z,
   unmatch_f |-> unmatch_f, poss_z |-> poss_z, poss_f |-> poss_f]

\* Lines 291-295: the loop over zagat is over and find_matches returns.
Return ==
  /\ pc = "outer"
  /\ i_z = Cardinality(ZagatRows)
  /\ results' = (block_on_city :> lists) @@ results
  /\ pc' = "returned"
  /\ UNCHANGED << error, data_vars, pat, block_on_city, possible_tuples,
                  match_tuples, unmatch_tuples, i_z, k_f, fodors_to_iterate,
                  list_vars, unused_in_match >>

\* find_matches is called again on the same files, now with block_on_city
\* False: lines 238-255 once more.  The same samples give the same three sets.
CallUnblocked ==
  /\ pc = "returned"
  /\ block_on_city
  /\ block_on_city' = FALSE
  /\ loop_start
  /\ pc' = "outer"
  /\ UNCHANGED << error, data_vars, pat, results, possible_tuples, match_tuples,
                  unmatch_tuples, unused_in_match >>

NextMatch ==
  \/ Train
  \/ TrainFails
  \/ ZagatRow
  \/ ClassifyPair
  \/ Return
  \/ CallUnblocked

SpecMatch == InitMatch /\ [][NextMatch]_vars


\* ------------------------------------------------ claims under SpecMatch

\* find_matches has returned from the call with the current block_on_city.
CallReturned == pc = "returned"

SameCity(p) == zagat[p[1]] = fodors[p[2]]

AllPairs == ZagatRows \X (1 .. NumFodors)

\* The candidate pairs the current call retains.
Retained == { p \in AllPairs : block_on_city => SameCity(p) }

\* The index pairs a z-list and an f-list of equal length hold, in order.
PairsOf(zs, fs) == [k \in 1 .. Len(zs) |-> <<zs[k], fs[k]>>]

\* How often the pair p was appended to the lists zs, fs.
Appended(zs, fs, p) ==
  Cardinality({ k \in 1 .. Len(zs) : zs[k] = p[1] /\ fs[k] = p[2] })

One(b) == IF b THEN 1 ELSE 0

\* C3: when the loop of find_matches is over, every retained candidate pair
\* (every pair without blocking, every pair of equal city with blocking) has
\* been appended exactly once, to the list of the set its tuple is in; a
\* z-list and its f-list have the same length and the three lengths sum to
\* the number of retained pairs.
C3_EveryPairOnce ==
  CallReturned =>
    /\ Len(match_z) = Len(match_f)
    /\ Len(unmatch_z) = Len(unmatch_f)
    /\ Len(poss_z) = Len(poss_f)
    /\ Len(match_z) + Len(unmatch_z) + Len(poss_z) = Cardinality(Retained)
    /\ \A p \in Retained :
         /\ p \in DOMAIN pat
         /\ Appended(match_z, match_f, p) = One(pat[p] \in match_tuples)
         /\ Appended(unmatch_z, unmatch_f, p) = One(pat[p] \in unmatch_tuples)
         /\ Appended(poss_z, poss_f, p) = One(pat[p] \in possible_tuples)
         /\ Appended(match_z, match_f, p) + Appended(unmatch_z, unmatch_f, p)
              + Appended(poss_z, poss_f, p) = 1
    /\ \A p \in AllPairs \ Retained :
         Appended(match_z, match_f, p) + Appended(unmatch_z, unmatch_f, p)
           + Appended(poss_z, poss_f, p) = 0

\* The call without blocking returned with a pair in each of the three lists.
C3_Witness ==
  /\ CallReturned
  /\ ~block_on_city
  /\ match_z # <<>>
  /\ unmatch_z # <<>>
  /\ poss_z # <<>>

Blocked == results[TRUE]

\* C4: on the same records and the same three sets, the lists find_matches
\* returns with block_on_city True are the lists it returns with block_on_city
\* False after removing every pair whose two cities differ.
C4_BlockingEquivalence ==
  (CallReturned /\ ~block_on_city) =>
    /\ PairsOf(Blocked.match_z, Blocked.match_f) =
         SelectSeq(PairsOf(match_z, match_f), SameCity)
    /\ PairsOf(Blocked.unmatch_z, Blocked.unmatch_f) =
         SelectSeq(PairsOf(unmatch_z, unmatch_f), SameCity)
    /\ PairsOf(Blocked.poss_z, Blocked.poss_f) =
         SelectSeq(PairsOf(poss_z, poss_f), SameCity)
    /\ Len(Blocked.match_z) = Len(Blocked.match_f)
    /\ Len(Blocked.unmatch_z) = Len(Blocked.unmatch_f)
    /\ Len(Blocked.poss_z) = Len(Blocked.poss_f)

\* Both calls returned; blocking pruned a pair from the match list and kept
\* pairs in two lists.
C4_Witness ==
  /\ CallReturned
  /\ ~block_on_city
  /\ Blocked.match_z # <<>>
  /\ Len(Blocked.match_z) < Len(match_z)
  /\ Blocked.unmatch_z # <<>> \/ Blocked.poss_z # <<>>

\* Every tuple compared is in one of the three sets create_sets returned: the
\* case of lines 278-289 in which no branch is taken does not arise.
EveryTupleLabelled ==
  pc \in {"outer", "inner", "returned"} =>
    \A p \in DOMAIN pat :
      label_of(pat[p], match_tuples, unmatch_tuples, possible_tuples) # "none"

====
